---- MODULE Spec2Model ----
(***************************************************************************)
(* Heap object-graph traversal of src/src/util/heap_dump_dot.rs:           *)
(* the SanityChecker (check_gc / check_roots / check_node), its            *)
(* WorkFactory (push_slot / push_nodes / push_error), and the              *)
(* graph::HeapGraphDumper (dump_dot / visit_roots / visit_node /           *)
(* visit_slot) with its RootSet and DotOutput.                             *)
(***************************************************************************)
EXTENDS Integers, Sequences, FiniteSets, TLC

(* ----------------------------- bounds ---------------------------------- *)
\* number of heap objects
NumObjects == 3
\* number of root-enumeration threads the VM's scan_vm_specific_roots uses
NumThreads == 2
\* largest number of root slots the VM reports
MaxRoots == 3

Objects == 1..NumObjects
Threads == 1..NumThreads
\* slot.load() == None
Null == 0

(* ------------------- the heap and the roots (inputs) -------------------- *)
\* A slot is [own, idx, ok, ref]: the idx-th slot of object own (own = 0: a
\* root slot), ok is the answer of pred.is_valid_slot, ref what load() yields.
NoSlot == [own |-> 0, idx |-> 0, ok |-> TRUE, ref |-> Null]

Succ(o) == (o % NumObjects) + 1

Shapes == {"leaf", "chain", "ring", "self", "diamond", "twin"}

\* the referents of the slots the scanner reports for object o
Targets(shape, o) ==
  CASE shape = "leaf"    -> << >>
    [] shape = "chain"   -> IF o < NumObjects THEN <<o + 1>> ELSE << >>
    [] shape = "ring"    -> <<Succ(o)>>
    [] shape = "self"    -> <<o, Succ(o)>>
    [] shape = "diamond" -> <<Succ(o), Succ(Succ(o))>>
    [] shape = "twin"    -> <<Succ(o), Succ(o)>>

HeapSlots(shape) ==
  {s \in Objects \X (1..2) : s[2] <= Len(Targets(shape, s[1]))}

MkFields(shape, bad, empty) ==
  [o \in Objects |->
     [i \in 1..Len(Targets(shape, o)) |->
        [own |-> o, idx |-> i, ok |-> <<o, i>> \notin bad,
         ref |-> IF <<o, i>> \in empty THEN Null ELSE Targets(shape, o)[i]]]]

MkRoots(tg, bad, empty) ==
  [j \in 1..Len(tg) |->
     [own |-> 0, idx |-> j, ok |-> j \notin bad,
      ref |-> IF j \in empty THEN Null ELSE tg[j]]]

SlotItem(s) == [op |-> "slot", slot |-> s, node |-> Null]
NodeItem(n) == [op |-> "node", slot |-> NoSlot, node |-> n]

\* The calls thread t makes on its clone of the factory: one
\* create_process_roots_work with the root slots it found, thread 1 also one
\* create_process_pinning_roots_work(pin), the last thread one
\* create_process_tpinning_roots_work(tpin); each Vec is walked item by item.
MkPlan(roots, pin, tpin) ==
  [t \in Threads |->
     LET Mine(s) == ((s.idx - 1) % NumThreads) + 1 = t
         mine    == SelectSeq(roots, Mine)
         slots   == [i \in 1..Len(mine) |-> SlotItem(mine[i])]
         pins    == IF t = 1 THEN [i \in 1..Len(pin) |-> NodeItem(pin[i])] ELSE << >>
         tpins   == IF t = NumThreads
                    THEN [i \in 1..Len(tpin) |-> NodeItem(tpin[i])] ELSE << >>
     IN  slots \o pins \o tpins]

Modes == {"check", "dump"}

\* at most one defective heap slot: failing is_valid_slot, or loading to None
HeapDefects(shape) ==
  {[bad |-> {}, empty |-> {}]}
    \cup {[bad |-> {s}, empty |-> {}] : s \in HeapSlots(shape)}
    \cup {[bad |-> {}, empty |-> {s}] : s \in HeapSlots(shape)}

\* root referents: all roots on object 1, or spread over the objects
RootTargets ==
  {[j \in 1..n |-> 1] : n \in 0..MaxRoots}
    \cup {[j \in 1..n |-> ((j - 1) % NumObjects) + 1] : n \in 0..MaxRoots}

RootDefects(n) ==
  {[bad |-> b, empty |-> e] : b \in SUBSET (1..n), e \in {{}, {n} \ {0}}}

Trusted ==
  {[pin |-> << >>, tpin |-> << >>], [pin |-> <<1>>, tpin |-> << >>],
   [pin |-> <<NumObjects, 1>>, tpin |-> <<2>>]}

\* heaps of every shape with any defect, under one or two sound root slots
\* (on the first object, on the last and the first, or on the last but one)
HeapScenarios ==
  UNION {{[mode |-> m, fields |-> MkFields(sh, d.bad, d.empty),
           validNode |-> [o \in Objects |-> o \notin inv],
           plan |-> MkPlan(MkRoots(tg, {}, {}), << >>, << >>)] :
            m \in Modes, inv \in SUBSET Objects,
            tg \in {<<1>>, <<NumObjects, 1>>, <<NumObjects - 1>>},
            d \in HeapDefects(sh)} :
         sh \in Shapes}

\* roots of every kind over a sound heap without or with a cycle
RootScenarios ==
  UNION {{[mode |-> m, fields |-> MkFields(sh, {}, {}),
           validNode |-> [o \in Objects |-> o \notin inv],
           plan |-> MkPlan(MkRoots(tg, d.bad, d.empty), tr.pin, tr.tpin)] :
            m \in Modes, sh \in {"leaf", "ring"}, inv \in {{}, {1}},
            tr \in Trusted, d \in RootDefects(Len(tg))} :
         tg \in RootTargets}

Scenarios == HeapScenarios \cup RootScenarios

VARIABLES
  mode,            \* which entry point runs: check_gc or graph::dump_dot
  fields,          \* object -> the slots conservatively_scan_object reports
  validNode,       \* object -> whether pred.is_valid_node is Ok
  plan,            \* thread -> the items it reports to the factory
  tpc, titem,      \* enumeration thread: position
  tsnap,           \* enumeration thread: the error Vec as read under the lock
  errLock,         \* holder of the errors Mutex (0: free)
  pc,              \* position of the driver thread
  node, idx, ret,  \* object being visited, next slot of its scan, caller
  work_list, root_list, visited, errors,
  current_source,  \* the dumper's cursor
  out,             \* lines written to the DotOutput file
  printed,         \* errors check_gc has printed
  checked, scanned,\* object -> number of validations / scans so far
  via,             \* slots whose referent has been pushed to a queue
  wfailed          \* whether an add_node or add_slot write has failed

inputs  == <<mode, fields, validNode, plan>>
threads == <<tpc, titem, tsnap, errLock>>
driver  == <<pc, node, idx, ret>>
queues  == <<work_list, root_list>>
history == <<checked, scanned, via, wfailed>>
vars == <<mode, fields, validNode, plan, tpc, titem, tsnap, errLock, pc, node,
          idx, ret, work_list, root_list, visited, errors, current_source,
          out, printed, checked, scanned, via, wfailed>>


(* ------------------------------ values ---------------------------------- *)
\* Error::BadEdge(slot, reason) and Error::BadNode(node, reason)
BadEdge(s) == [kind |-> "BadEdge", own |-> s.own, idx |-> s.idx, node |-> Null]
BadNode(n) == [kind |-> "BadNode", own |-> 0, idx |-> 0, node |-> n]

\* NodeId: the quoted address of an object, "roots", or the cleared cursor
ToNodeId(obj) == [tag |-> "obj", addr |-> obj]
RootsId       == [tag |-> "roots", addr |-> 0]
UnknownId     == [tag |-> "unknown", addr |-> 0]

\* mutants: a validity check that is skipped
IsValidSlotAlways(s) == TRUE
IsValidNodeAlways(n) == TRUE

\* the validity predicate and the slot's load()
IsValidSlot(s) == s.ok
IsValidNode(n) == validNode[n]
Load(s) == s.ref

Item(t) == plan[t][titem[t]]

\* a panic in dump_dot unwinds through the DotOutput the dumper owns
PanicPc == IF mode = "dump" THEN "unwinding" ELSE "panicked"

Init ==
  \E sc \in Scenarios :
    /\ mode = sc.mode
    /\ fields = sc.fields
    /\ validNode = sc.validNode
    /\ plan = sc.plan
    /\ tpc = [t \in Threads |-> "idle"]
    /\ titem = [t \in Threads |-> 1]
    /\ tsnap = [t \in Threads |-> << >>]
    /\ errLock = 0
    /\ pc = "start"
    /\ node = Null
    /\ idx = 0
    /\ ret = "none"
    /\ work_list = << >>
    /\ root_list = << >>
    /\ visited = {}
    /\ errors = << >>
    /\ current_source = UnknownId
    /\ out = << >>
    /\ printed = << >>
    /\ checked = [o \in Objects |-> 0]
    /\ scanned = [o \in Objects |-> 0]
    /\ via = {}
    /\ wfailed = FALSE

(* ----------------------- root enumeration threads ----------------------- *)
\* the thread moves to its next item, or is finished
Advance(t) ==
  /\ titem' = [titem EXCEPT ![t] = @ + 1]
  /\ tpc' = [tpc EXCEPT ![t] = IF titem[t] + 1 > Len(plan[t]) THEN "done" ELSE "run"]

\* check_roots (line 161): scan_vm_specific_roots is handed a clone of the
\* WorkFactory and starts its threads
SanityCheckerStart ==
  /\ mode = "check" /\ pc = "start"
  /\ pc' = "enumerating"
  /\ tpc' = [t \in Threads |-> IF Len(plan[t]) = 0 THEN "done" ELSE "run"]
  /\ UNCHANGED <<inputs, titem, tsnap, errLock, node, idx, ret, queues, visited,
                 errors, current_source, out, printed, history>>

\* WorkFactory::push_slot, up to the lock of the error log
WorkFactoryPushSlot(t) ==
  /\ mode = "check" /\ pc = "enumerating" /\ tpc[t] = "run"
  /\ Item(t).op = "slot"
  /\ LET slot == Item(t).slot IN
       IF IsValidSlot(slot)
       THEN IF Load(slot) = Null
            THEN \* .expect("invalid") panics
                 /\ tpc' = [tpc EXCEPT ![t] = "panicked"]
                 /\ UNCHANGED <<titem, work_list, via>>
            ELSE /\ work_list' = Append(work_list, Load(slot))
                 /\ via' = via \cup {<<slot.own, slot.idx>>}
                 /\ Advance(t)
       ELSE /\ tpc' = [tpc EXCEPT ![t] = "lock"]
            /\ UNCHANGED <<titem, work_list, via>>
  /\ UNCHANGED <<inputs, tsnap, errLock, driver, root_list, visited, errors,
                 current_source, out, printed, checked, scanned, wfailed>>

\* mutant: the error log is written without waiting for the mutex
CanLockAlways(t) == TRUE

\* Mutex::lock: the thread waits until the mutex is free
CanLock(t) == errLock = 0

\* push_slot, Err arm: self.errors.lock()
WorkFactoryLockErrors(t) ==
  /\ mode = "check" /\ pc = "enumerating" /\ tpc[t] = "lock"
  /\ CanLock(t)
  /\ errLock' = t
  /\ tsnap' = [tsnap EXCEPT ![t] = errors]
  /\ tpc' = [tpc EXCEPT ![t] = "push"]
  /\ UNCHANGED <<inputs, titem, driver, queues, visited, errors, current_source,
                 out, printed, history>>

\* push_slot, Err arm: .push(Error::BadEdge(slot, error)), guard dropped
WorkFactoryPushBadEdge(t) ==
  /\ mode = "check" /\ pc = "enumerating" /\ tpc[t] = "push"
  /\ errors' = Append(tsnap[t], BadEdge(Item(t).slot))
  /\ errLock' = 0
  /\ tsnap' = [tsnap EXCEPT ![t] = << >>]
  /\ Advance(t)
  /\ UNCHANGED <<inputs, driver, queues, visited, current_source, out, printed,
                 history>>

\* mutant: push_nodes validates, pushing only the nodes is_valid_node accepts
WorkFactoryPushNodesValidated(t) ==
  /\ mode = "check" /\ pc = "enumerating" /\ tpc[t] = "run"
  /\ Item(t).op = "node"
  /\ work_list' = IF IsValidNode(Item(t).node)
                  THEN Append(work_list, Item(t).node) ELSE work_list
  /\ Advance(t)
  /\ UNCHANGED <<inputs, tsnap, errLock, driver, root_list, visited, errors,
                 current_source, out, printed, history>>

\* WorkFactory::push_nodes, one node of the Vec
WorkFactoryPushNodes(t) ==
  /\ mode = "check" /\ pc = "enumerating" /\ tpc[t] = "run"
  /\ Item(t).op = "node"
  /\ work_list' = Append(work_list, Item(t).node)
  /\ Advance(t)
  /\ UNCHANGED <<inputs, tsnap, errLock, driver, root_list, visited, errors,
                 current_source, out, printed, history>>

\* RootSet::push_slot: no validity check, an empty slot is logged and dropped
RootSetPushSlot(t) ==
  /\ mode = "dump" /\ pc = "enumerating" /\ tpc[t] = "run"
  /\ Item(t).op = "slot"
  /\ LET slot == Item(t).slot IN
       IF Load(slot) = Null
       THEN UNCHANGED <<root_list, via>>
       ELSE /\ root_list' = Append(root_list, Load(slot))
            /\ via' = via \cup {<<slot.own, slot.idx>>}
  /\ Advance(t)
  /\ UNCHANGED <<inputs, tsnap, errLock, driver, work_list, visited, errors,
                 current_source, out, printed, checked, scanned, wfailed>>

\* RootSet::push_nodes, one node of the Vec
RootSetPushNodes(t) ==
  /\ mode = "dump" /\ pc = "enumerating" /\ tpc[t] = "run"
  /\ Item(t).op = "node"
  /\ root_list' = Append(root_list, Item(t).node)
  /\ Advance(t)
  /\ UNCHANGED <<inputs, tsnap, errLock, driver, work_list, visited, errors,
                 current_source, out, printed, history>>

\* scan_vm_specific_roots returns once its threads have finished; a panic
\* of one of them is the enumerator's panic
RootsReturn ==
  /\ pc = "enumerating"
  /\ \A t \in Threads : tpc[t] \in {"done", "panicked"}
  /\ pc' = IF \E t \in Threads : tpc[t] = "panicked" THEN PanicPc ELSE "loop"
  /\ UNCHANGED <<inputs, threads, node, idx, ret, queues, visited, errors,
                 current_source, out, printed, history>>

(* --------------------------- SanityChecker ------------------------------ *)
\* mutant: the visited test is dropped
UnvisitedAlways(n) == TRUE

\* line 174 / 420: !self.visited.contains(&node)
Unvisited(n) == n \notin visited

\* mutant: the insert into the visited set is forgotten
MarkVisitedForgotten(n) == visited

\* line 175 / 421: self.visited.insert(node)
MarkVisited(n) == visited \cup {n}

\* check_roots, one turn of the loop: work_list.pop(), then check_node up to
\* the call of the scanner (or the whole of it when the node is skipped or bad)
CheckRootsPop ==
  /\ mode = "check" /\ pc = "loop"
  /\ IF work_list = << >>
     THEN \* None => break
          /\ pc' = "done"
          /\ UNCHANGED <<node, idx, work_list, visited, errors, checked, scanned>>
     ELSE LET n == Head(work_list) IN
          /\ work_list' = Tail(work_list)
          /\ node' = n
          /\ IF Unvisited(n)
             THEN /\ visited' = MarkVisited(n)
                  /\ checked' = [checked EXCEPT ![n] = @ + 1]
                  /\ IF IsValidNode(n)
                     THEN /\ pc' = "scan"
                          /\ idx' = 1
                          /\ scanned' = [scanned EXCEPT ![n] = @ + 1]
                          /\ UNCHANGED errors
                     ELSE \* push_error(Error::BadNode(node, error))
                          /\ errors' = Append(errors, BadNode(n))
                          /\ UNCHANGED <<pc, idx, scanned>>
             ELSE UNCHANGED <<pc, idx, visited, errors, checked, scanned>>
  /\ UNCHANGED <<inputs, threads, ret, root_list, current_source, out, printed, via,
                 wfailed>>

\* SanityChecker::visit_slot -> WorkFactory::push_slot, called by the scanner
\* for the next slot of the node
CheckerVisitSlot ==
  /\ mode = "check" /\ pc = "scan"
  /\ idx <= Len(fields[node])
  /\ LET slot == fields[node][idx] IN
       IF IsValidSlot(slot)
       THEN IF Load(slot) = Null
            THEN \* .expect("invalid") panics
                 /\ pc' = PanicPc
                 /\ UNCHANGED <<idx, work_list, errors, via>>
            ELSE /\ work_list' = Append(work_list, Load(slot))
                 /\ via' = via \cup {<<slot.own, slot.idx>>}
                 /\ idx' = idx + 1
                 /\ UNCHANGED <<pc, errors>>
       ELSE /\ errors' = Append(errors, BadEdge(slot))
            /\ idx' = idx + 1
            /\ UNCHANGED <<pc, work_list, via>>
  /\ UNCHANGED <<inputs, threads, node, ret, root_list, visited, current_source,
                 out, printed, checked, scanned, wfailed>>

\* mutant: the drain loop is left as soon as an error has been recorded
CheckerScanReturnFailFast ==
  /\ mode = "check" /\ pc = "scan"
  /\ idx > Len(fields[node])
  /\ pc' = IF errors # << >> THEN "done" ELSE "loop"
  /\ UNCHANGED <<inputs, threads, node, idx, ret, queues, visited, errors,
                 current_source, out, printed, history>>

\* conservatively_scan_object returns, and with it check_node
CheckerScanReturn ==
  /\ mode = "check" /\ pc = "scan"
  /\ idx > Len(fields[node])
  /\ pc' = "loop"
  /\ UNCHANGED <<inputs, threads, node, idx, ret, queues, visited, errors,
                 current_source, out, printed, history>>

(* ------------------------------ check_gc -------------------------------- *)
\* mutant: the test of line 16 loses its negation
MsgIsNotEmpty == Len(errors) # 0

\* line 16: msg.is_empty()
MsgIsEmpty == Len(errors) = 0

\* check_gc after check_roots has returned: lock the log and inspect it
CheckGcInspect ==
  /\ mode = "check" /\ pc = "done"
  /\ IF MsgIsEmpty
     THEN pc' = "returned" /\ UNCHANGED idx
     ELSE pc' = "print" /\ idx' = 1
  /\ UNCHANGED <<inputs, threads, node, ret, queues, visited, errors,
                 current_source, out, printed, history>>

\* for message in msg.iter() { println!(..) }
CheckGcPrint ==
  /\ mode = "check" /\ pc = "print"
  /\ idx <= Len(errors)
  /\ printed' = Append(printed, errors[idx])
  /\ idx' = idx + 1
  /\ UNCHANGED <<inputs, threads, pc, node, ret, queues, visited, errors,
                 current_source, out, history>>

\* panic!("things went poorly")
CheckGcPanic ==
  /\ mode = "check" /\ pc = "print"
  /\ idx > Len(errors)
  /\ pc' = "failed"
  /\ UNCHANGED <<inputs, threads, node, idx, ret, queues, visited, errors,
                 current_source, out, printed, history>>

(* ---------------------- graph::dump_dot / DotOutput --------------------- *)
NoId == [tag |-> "none", addr |-> 0]
\* DotOutput::new: "digraph heap {"
Header == [k |-> "header", a |-> NoId, b |-> NoId, err |-> FALSE]
\* Drop for DotOutput: "}"
Footer == [k |-> "footer", a |-> NoId, b |-> NoId, err |-> FALSE]
\* DotOutput::add_node: "  id [attrs];", err: the attribute list is the error one
NodeLine(id, e) == [k |-> "node", a |-> id, b |-> NoId, err |-> e]
\* mutant: the two ends of an edge line swapped
EdgeLineReversed(src, dst) == [k |-> "edge", a |-> dst, b |-> src, err |-> FALSE]
\* DotOutput::add_slot: "  src -> dst;"
EdgeLine(src, dst) == [k |-> "edge", a |-> src, b |-> dst, err |-> FALSE]

\* what a write! that fails part-way leaves in the file
PartialLine == [k |-> "partial", a |-> NoId, b |-> NoId, err |-> FALSE]

\* a write to the file succeeds or fails
WriteResults == {TRUE, FALSE}

\* mutant: visit_node of a root returns past the roots edge
AfterSkipsRootEdge == "loop"
\* where visit_node returns to: the root arm or the work arm of visit_roots
After == IF ret = "root" THEN "root_edge" ELSE "loop"

\* add_node(..).unwrap() or add_slot(..).unwrap() on a failed write: the
\* panic, after none or a part of the line reached the file
WritePanics ==
  /\ wfailed' = TRUE
  /\ pc' = PanicPc
  /\ \E torn \in BOOLEAN : out' = IF torn THEN Append(out, PartialLine) ELSE out

\* dump_dot up to the call of the root enumerator: File::create, the header
\* written by DotOutput::new, HeapGraphDumper::new, scan_vm_specific_roots
DumpDotStart ==
  /\ mode = "dump" /\ pc = "start"
  /\ \E created \in BOOLEAN, w \in WriteResults :
       IF ~created
       THEN \* File::create(path)? returns the error
            pc' = "err" /\ UNCHANGED <<out, tpc>>
       ELSE IF ~w
       THEN \* write!(..).unwrap() panics before a DotOutput exists
            pc' = "new_panicked" /\ UNCHANGED <<out, tpc>>
       ELSE /\ out' = Append(out, Header)
            /\ pc' = "enumerating"
            /\ tpc' = [t \in Threads |-> IF Len(plan[t]) = 0 THEN "done" ELSE "run"]
  /\ UNCHANGED <<inputs, titem, tsnap, errLock, node, idx, ret, queues, visited,
                 errors, current_source, printed, history>>

\* HeapGraphDumper::visit_node(n) up to the call of the scanner (or the whole
\* of it when the node is skipped or bad), returning to position after
VisitNode(n, after) ==
  IF Unvisited(n)
  THEN /\ visited' = MarkVisited(n)
       /\ checked' = [checked EXCEPT ![n] = @ + 1]
       /\ \E w \in WriteResults :
            IF IsValidNode(n)
            THEN IF w
                 THEN /\ out' = Append(out, NodeLine(ToNodeId(n), FALSE))
                      /\ current_source' = ToNodeId(n)
                      /\ scanned' = [scanned EXCEPT ![n] = @ + 1]
                      /\ pc' = "scan"
                      /\ idx' = 1
                      /\ UNCHANGED wfailed
                 ELSE /\ current_source' = ToNodeId(n)
                      /\ WritePanics
                      /\ UNCHANGED <<scanned, idx>>
            ELSE IF w
                 THEN /\ out' = Append(out, NodeLine(ToNodeId(n), TRUE))
                      /\ current_source' = UnknownId
                      /\ pc' = after
                      /\ UNCHANGED <<scanned, idx, wfailed>>
                 ELSE /\ current_source' = ToNodeId(n)
                      /\ WritePanics
                      /\ UNCHANGED <<scanned, idx>>
  ELSE /\ pc' = after
       /\ UNCHANGED <<visited, checked, out, current_source, scanned, idx, wfailed>>

\* visit_roots, first match of the loop: root_set.work_list.pop()
VisitRootsPopRoot ==
  /\ mode = "dump" /\ pc = "loop"
  /\ IF root_list = << >>
     THEN \* None => ()
          /\ pc' = "work"
          /\ UNCHANGED <<node, idx, ret, root_list, visited, current_source, out,
                         checked, scanned, wfailed>>
     ELSE /\ root_list' = Tail(root_list)
          /\ node' = Head(root_list)
          /\ ret' = "root"
          /\ VisitNode(Head(root_list), "root_edge")
  /\ UNCHANGED <<inputs, threads, work_list, errors, printed, via>>

\* HeapGraphDumper::visit_slot, called by the scanner for the next slot
DumperVisitSlot ==
  /\ mode = "dump" /\ pc = "scan"
  /\ idx <= Len(fields[node])
  /\ LET slot == fields[node][idx] IN
       IF Load(slot) = Null
       THEN \* .expect("invalid") panics
            /\ pc' = PanicPc
            /\ UNCHANGED <<idx, work_list, out, via, wfailed>>
       ELSE \E w \in WriteResults :
            IF w
            THEN /\ out' = Append(out, EdgeLine(current_source, ToNodeId(Load(slot))))
                 /\ work_list' = Append(work_list, Load(slot))
                 /\ via' = via \cup {<<slot.own, slot.idx>>}
                 /\ idx' = idx + 1
                 /\ UNCHANGED <<pc, wfailed>>
            ELSE /\ WritePanics
                 /\ UNCHANGED <<idx, work_list, via>>
  /\ UNCHANGED <<inputs, threads, node, ret, root_list, visited, errors,
                 current_source, printed, checked, scanned>>

\* mutant: visit_node does not clear the cursor after the scan
DumperScanReturnKeepsCursor ==
  /\ mode = "dump" /\ pc = "scan"
  /\ idx > Len(fields[node])
  /\ pc' = After
  /\ UNCHANGED <<inputs, threads, node, idx, ret, queues, visited, errors, out,
                 current_source, printed, history>>

\* conservatively_scan_object returns; visit_node clears the cursor
DumperScanReturn ==
  /\ mode = "dump" /\ pc = "scan"
  /\ idx > Len(fields[node])
  /\ current_source' = UnknownId
  /\ pc' = After
  /\ UNCHANGED <<inputs, threads, node, idx, ret, queues, visited, errors, out,
                 printed, history>>

\* mutant: the Result of add_slot is dropped, the loop carries on
VisitRootsRootEdgeUnchecked ==
  /\ mode = "dump" /\ pc = "root_edge"
  /\ \E w \in WriteResults :
       IF w
       THEN /\ out' = Append(out, EdgeLine(RootsId, ToNodeId(node)))
            /\ UNCHANGED wfailed
       ELSE wfailed' = TRUE /\ UNCHANGED out
  /\ pc' = "work"
  /\ UNCHANGED <<inputs, threads, node, idx, ret, queues, visited, errors,
                 current_source, printed, checked, scanned, via>>

\* visit_roots, lines 404-406: the roots -> node edge, after visit_node
VisitRootsRootEdge ==
  /\ mode = "dump" /\ pc = "root_edge"
  /\ \E w \in WriteResults :
       IF w
       THEN /\ out' = Append(out, EdgeLine(RootsId, ToNodeId(node)))
            /\ pc' = "work"
            /\ UNCHANGED wfailed
       ELSE WritePanics
  /\ UNCHANGED <<inputs, threads, node, idx, ret, queues, visited, errors,
                 current_source, printed, checked, scanned, via>>

\* visit_roots, second match of the loop: self.work_list.pop()
VisitRootsPopWork ==
  /\ mode = "dump" /\ pc = "work"
  /\ IF work_list = << >>
     THEN \* None => break
          /\ pc' = "done"
          /\ UNCHANGED <<node, idx, ret, work_list, visited, current_source, out,
                         checked, scanned, wfailed>>
     ELSE /\ work_list' = Tail(work_list)
          /\ node' = Head(work_list)
          /\ ret' = "work"
          /\ VisitNode(Head(work_list), "loop")
  /\ UNCHANGED <<inputs, threads, root_list, errors, printed, via>>

\* mutant: the DotOutput is never dropped, so no footer is written
DumpDotReturnNoFooter ==
  /\ mode = "dump" /\ pc = "done"
  /\ pc' = "returned"
  /\ UNCHANGED <<inputs, threads, node, idx, ret, queues, visited, errors,
                 current_source, out, printed, history>>

\* dump_dot after visit_roots: Ok(()) and the drop of the dumper, whose
\* DotOutput writes the footer
DumpDotReturn ==
  /\ mode = "dump" /\ pc = "done"
  /\ \E w \in WriteResults :
       IF w
       THEN out' = Append(out, Footer) /\ pc' = "returned"
       ELSE \* write!(..).unwrap() panics in drop
            pc' = "drop_panicked" /\ UNCHANGED out
  /\ UNCHANGED <<inputs, threads, node, idx, ret, queues, visited, errors,
                 current_source, printed, history>>

\* mutant: the DotOutput is leaked when a panic unwinds, no footer is written
DumpDotUnwindLeaked ==
  /\ mode = "dump" /\ pc = "unwinding"
  /\ pc' = "panicked"
  /\ UNCHANGED <<inputs, threads, node, idx, ret, queues, visited, errors,
                 current_source, out, printed, history>>

\* a panic inside visit_roots: unwinding drops the dumper and its DotOutput
\* (footer written); a failing footer write, or a build with panic=abort,
\* ends the process at once
DumpDotUnwind ==
  /\ mode = "dump" /\ pc = "unwinding"
  /\ \/ out' = Append(out, Footer) /\ pc' = "panicked"
     \/ pc' = "aborted" /\ UNCHANGED out
  /\ UNCHANGED <<inputs, threads, node, idx, ret, queues, visited, errors,
                 current_source, printed, history>>

Next ==
  \/ SanityCheckerStart
  \/ DumpDotStart
  \/ \E t \in Threads : \/ WorkFactoryPushSlot(t)
                         \/ WorkFactoryLockErrors(t)
                         \/ WorkFactoryPushBadEdge(t)
                         \/ WorkFactoryPushNodes(t)
                         \/ RootSetPushSlot(t)
                         \/ RootSetPushNodes(t)
  \/ RootsReturn
  \/ CheckRootsPop
  \/ CheckerVisitSlot
  \/ CheckerScanReturn
  \/ CheckGcInspect
  \/ CheckGcPrint
  \/ CheckGcPanic
  \/ VisitRootsPopRoot
  \/ DumperVisitSlot
  \/ DumperScanReturn
  \/ VisitRootsRootEdge
  \/ VisitRootsPopWork
  \/ DumpDotReturn
  \/ DumpDotUnwind

Spec == Init /\ [][Next]_vars

(* ------------------------ the graph, for the claims --------------------- *)
RootItems == UNION {{<<t, i>> : i \in DOMAIN plan[t]} : t \in Threads}
RootSlots ==
  {plan[q[1]][q[2]].slot : q \in {r \in RootItems : plan[r[1]][r[2]].op = "slot"}}
TrustedNodes ==
  {plan[q[1]][q[2]].node : q \in {r \in RootItems : plan[r[1]][r[2]].op = "node"}}
SlotsOf(o) == {fields[o][i] : i \in DOMAIN fields[o]}
HeapSlotRecs == UNION {SlotsOf(o) : o \in Objects}

\* every object referenced by a slot of o
Refs == [o \in Objects |-> {s.ref : s \in SlotsOf(o)} \ {Null}]
\* the objects the checker is to follow from o: none from an invalid node,
\* none through an invalid slot
Follows ==
  [o \in Objects |->
     IF validNode[o] THEN {s.ref : s \in {f \in SlotsOf(o) : f.ok}} \ {Null} ELSE {}]

RECURSIVE Close(_, _)
Close(S, E) ==
  LET T == S \cup UNION {E[o] : o \in S}
  IN  IF T = S THEN S ELSE Close(T, E)

\* the objects the root enumerator hands to the checker / to the dumper
CheckerRoots == ({s.ref : s \in {r \in RootSlots : r.ok}} \ {Null}) \cup TrustedNodes
DumperRoots  == ({s.ref : s \in RootSlots} \ {Null}) \cup TrustedNodes

AllSound ==
  /\ \A o \in Objects : validNode[o]
  /\ \A s \in HeapSlotRecs \cup RootSlots : s.ok /\ s.ref # Null

Count(seq, x) == Cardinality({i \in DOMAIN seq : seq[i] = x})

\* check_roots has returned to check_gc
CheckRootsReturned == mode = "check" /\ pc \in {"done", "print", "returned", "failed"}

(* -------------------------------- claims -------------------------------- *)
\* C1: on a heap where every node and slot is valid and every slot loads to
\* an object, check_roots never panics, and when it has returned the visited
\* set is exactly the set of objects reachable from the reported roots, each
\* of them validated once and scanned once, and no other object at all.
C1_CheckerComplete ==
  (mode = "check" /\ AllSound) =>
    /\ pc # "panicked"
    /\ CheckRootsReturned =>
         /\ visited = Close(CheckerRoots, Refs)
         /\ \A o \in Objects :
              /\ checked[o] = IF o \in Close(CheckerRoots, Refs) THEN 1 ELSE 0
              /\ scanned[o] = checked[o]

\* a sound heap with a self-reference on a cycle, wholly visited
C1_Witness ==
  /\ mode = "check" /\ AllSound /\ pc = "done"
  /\ visited = Objects
  /\ \E o \in Objects : o \in Refs[o] /\ Refs[o] # {o}

\* visit_roots / check_roots was left by a panic
TraversalPanicked == pc \in {"panicked", "unwinding", "aborted"}
\* visit_roots has returned to dump_dot
VisitRootsReturned == mode = "dump" /\ pc \in {"done", "returned", "drop_panicked"}

\* C2: on a sound heap, when the dumper's visit_roots has returned, the root
\* queue and the work queue are both empty and every object enqueued as a
\* root, and every object reachable from one, has been visited.
C2_DumperComplete ==
  (AllSound /\ VisitRootsReturned) =>
    /\ root_list = << >>
    /\ work_list = << >>
    /\ Close(DumperRoots, Refs) \subseteq visited

\* C3: neither traversal is ever left by a panic: check_roots and
\* visit_roots end, if they end, in their Done state.
C3_ReachesDone == ~TraversalPanicked

\* every run stops: no cycle of the heap keeps a drain loop running
Halted ==
  pc \in {"returned", "failed", "panicked", "aborted", "err", "new_panicked",
          "drop_panicked"}
FairSpec == Spec /\ WF_vars(Next)
EventuallyHalted == <>Halted

\* the slots, of the heap or of the roots, through which object o was pushed
PushedThrough(o) ==
  {s \in HeapSlotRecs \cup RootSlots : <<s.own, s.idx>> \in via /\ s.ref = o}

\* C4: within one run of the checker or of the dumper, no object is handed
\* to is_valid_node more than once and none is scanned more than once.
C4_AtMostOnce ==
  \A o \in Objects : checked[o] <= 1 /\ scanned[o] <= 1

\* an object pushed through a root slot, through a slot of the heap (on a
\* cycle) and as a trusted root, at the end of a
\* run that validated and scanned it
C4_Witness ==
  /\ pc \in {"done", "returned"}
  /\ \E o \in Objects :
       /\ \E r, f \in PushedThrough(o) : r.own = 0 /\ f.own # 0
       /\ o \in TrustedNodes
       /\ checked[o] = 1 /\ scanned[o] = 1

\* C5: check_gc returns normally only with an empty error log, and with an
\* empty log it does return; with a non-empty log it prints the records of
\* the log, each once and in order, and then panics.
C5_CheckGcOutcome ==
  mode = "check" =>
    /\ pc = "returned" => (errors = << >> /\ printed = << >>)
    /\ pc = "print" => (errors # << >> /\ printed = SubSeq(errors, 1, idx - 1))
    /\ pc = "failed" => (errors # << >> /\ printed = errors)

\* check_gc has panicked after printing a BadEdge and a BadNode
C5_Witness ==
  /\ mode = "check" /\ pc = "failed"
  /\ \E i, j \in DOMAIN printed :
       printed[i].kind = "BadEdge" /\ printed[j].kind = "BadNode"

BadRootSlots == {r \in RootSlots : ~r.ok}
\* the root enumerator has returned normally to check_roots
RootsReported == mode = "check" /\ pc \in {"loop", "scan", "done", "print", "returned", "failed"}

\* C6: when exactly one of the reported root slots fails is_valid_slot (and no
\* slot of the heap does), the error log never holds a BadEdge other than
\* the one for that slot, holds it exactly once from the return of the
\* enumerator on, nothing is ever pushed through that slot, and when
\* check_roots returns the referents of the other root slots and all that is
\* reachable from them are visited.
C6_InvalidRootIsolated ==
  (mode = "check" /\ Cardinality(BadRootSlots) = 1 /\ \A s \in HeapSlotRecs : s.ok) =>
    \A bad \in BadRootSlots :
      /\ <<bad.own, bad.idx>> \notin via
      /\ \A i \in DOMAIN errors : errors[i].kind = "BadEdge" => errors[i] = BadEdge(bad)
      /\ Count(errors, BadEdge(bad)) <= 1
      /\ RootsReported => Count(errors, BadEdge(bad)) = 1
      /\ CheckRootsReturned =>
           /\ {s.ref : s \in RootSlots \ {bad}} \subseteq visited
           /\ Close({s.ref : s \in RootSlots \ {bad}}, Follows) \subseteq visited

\* three root slots, the bad one the only way to its referent: the other two
\* referents are visited, that one is not
C6_Witness ==
  /\ mode = "check" /\ pc = "done"
  /\ Cardinality(RootSlots) = 3 /\ Cardinality(BadRootSlots) = 1
  /\ Len(errors) = 1
  /\ Cardinality(visited) = 2
  /\ \A bad \in BadRootSlots : bad.ref \notin visited

\* C7: in the checker an object failing is_valid_node is never scanned, has
\* one BadNode record once visited (none before), nothing is pushed through
\* its slots and no BadEdge names one of them; when check_roots returns, the
\* visited set is what is reachable through valid nodes and valid slots.
C7_InvalidNodeNotScanned ==
  mode = "check" =>
    \A o \in Objects : ~validNode[o] =>
      /\ scanned[o] = 0
      /\ Count(errors, BadNode(o)) = IF o \in visited THEN 1 ELSE 0
      /\ \A s \in SlotsOf(o) :
           <<s.own, s.idx>> \notin via /\ Count(errors, BadEdge(s)) = 0
      /\ CheckRootsReturned => visited = Close(CheckerRoots, Follows)

\* a visited invalid object holding a slot that fails is_valid_slot, in a
\* heap whose other objects were all reached by other paths
C7_Witness ==
  /\ mode = "check" /\ pc = "done"
  /\ visited = Objects
  /\ \E o \in Objects :
       /\ ~validNode[o]
       /\ \E s \in SlotsOf(o) : ~s.ok
       /\ \A p \in Objects \ {o} : validNode[p]

\* thread t takes a step
Steps(t) == tpc'[t] # tpc[t] \/ titem'[t] # titem[t]

\* C8: a push_slot of the checker on a slot that passes is_valid_slot and
\* loads to no object pushes nothing, records nothing, and the traversal
\* goes on to the next slot.
C8_EmptySlotDropped ==
  [][/\ (/\ mode = "check" /\ pc = "scan" /\ idx <= Len(fields[node])
         /\ fields[node][idx].ok /\ fields[node][idx].ref = Null)
        => (/\ pc' = "scan" /\ idx' = idx + 1
            /\ work_list' = work_list /\ errors' = errors)
     /\ \A t \in Threads :
          (/\ mode = "check" /\ pc = "enumerating" /\ tpc[t] = "run"
           /\ Item(t).op = "slot" /\ Item(t).slot.ok /\ Item(t).slot.ref = Null
           /\ Steps(t))
          => (/\ tpc'[t] # "panicked" /\ titem'[t] = titem[t] + 1
              /\ work_list' = work_list /\ errors' = errors)]_vars

\* the items the enumeration threads have reported in full
ItemsDone == {q \in RootItems : q[2] < titem[q[1]]}
PushesOf(o) ==
  {q \in ItemsDone :
     LET it == plan[q[1]][q[2]]
     IN  \/ it.op = "slot" /\ it.slot.ok /\ it.slot.ref = o
         \/ it.op = "node" /\ it.node = o}
\* the state in which the enumerator returns, and the one it returns to
EnumeratorAtWork == mode = "check" /\ (pc = "enumerating" \/ (pc = "loop" /\ node = Null))

\* C9: under every interleaving of the enumeration threads the shared work
\* queue holds exactly one entry per valid loaded root slot and per trusted
\* object reported so far, and the shared error log exactly one BadEdge per
\* invalid root slot reported so far: when the enumerator returns, one per
\* reported item, none lost, duplicated or foreign.
C9_ConcurrentRootsKept ==
  EnumeratorAtWork =>
    /\ \A o \in Objects : Count(work_list, o) = Cardinality(PushesOf(o))
    /\ Len(work_list) = Cardinality(UNION {PushesOf(o) : o \in Objects})
    /\ \A r \in RootSlots :
         Count(errors, BadEdge(r)) =
           IF ~r.ok /\ \E q \in ItemsDone : plan[q[1]][q[2]] = SlotItem(r) THEN 1 ELSE 0
    /\ Len(errors) = Cardinality({r \in BadRootSlots :
                                   \E q \in ItemsDone : plan[q[1]][q[2]] = SlotItem(r)})

\* the enumerator has returned after two of its threads each logged a
\* BadEdge, and the queue holds entries of slots and of trusted objects
C9_Witness ==
  /\ mode = "check" /\ pc = "loop" /\ node = Null
  /\ Len(work_list) >= 3
  /\ TrustedNodes # {}
  /\ \E i, j \in DOMAIN errors :
       (errors[i].idx - 1) % NumThreads # (errors[j].idx - 1) % NumThreads

ZeroRoots == \A t \in Threads : plan[t] = << >>

\* C10: with no root reported, check_roots completes without a panic, with
\* an empty error log and an empty visited set, and check_gc returns; the
\* dumper visits nothing, writes no node or edge line, and when dump_dot
\* returns the file holds exactly the header followed by the footer.
C10_ZeroRoots ==
  ZeroRoots =>
    /\ visited = {} /\ errors = << >>
    /\ mode = "check" => pc \in {"start", "enumerating", "loop", "done", "returned"}
    /\ mode = "dump" =>
         /\ pc \in {"start", "err", "new_panicked", "enumerating", "loop", "work",
                     "done", "returned", "drop_panicked"}
         /\ \A i \in DOMAIN out : out[i].k \in {"header", "footer"}
         /\ pc = "returned" => out = <<Header, Footer>>

\* dump_dot has returned Ok without any root reported
C10_Witness == ZeroRoots /\ mode = "dump" /\ pc = "returned"

(* --------------------------- the dump's content ------------------------- *)
\* dump_dot returned Ok(())
DumpReturned == mode = "dump" /\ pc = "returned"

\* the lines of each kind in the file
LinesOfKind(k) == {i \in DOMAIN out : out[i].k = k}
NodeDecls(o) == {i \in LinesOfKind("node") : out[i].a = [tag |-> "obj", addr |-> o]}
NodeLinesOf(o) == Cardinality(NodeDecls(o))
Edges(src, dst) == {i \in LinesOfKind("edge") : out[i].a = src /\ out[i].b = dst}
EdgesFrom(o) == {i \in LinesOfKind("edge") : out[i].a = [tag |-> "obj", addr |-> o]}
EdgeLinesFrom(o, t) ==
  Cardinality(Edges([tag |-> "obj", addr |-> o], [tag |-> "obj", addr |-> t]))
RootEdges(o) == Edges([tag |-> "roots", addr |-> 0], [tag |-> "obj", addr |-> o])
RootEdgesTo(o) == Cardinality(RootEdges(o))
SlotsTo(o, t) == Cardinality({s \in SlotsOf(o) : s.ref = t})

\* line i is a header, a footer, the declaration of an object, or an edge
\* from an object or from roots to an object
IsDotLine(i) ==
  \/ out[i].k \in {"header", "footer"}
  \/ out[i].k = "node" /\ out[i].a.tag = "obj" /\ out[i].a.addr \in Objects
  \/ /\ out[i].k = "edge" /\ out[i].a.tag \in {"obj", "roots"}
     /\ out[i].b.tag = "obj" /\ out[i].b.addr \in Objects

\* the graph root -> A -> B: one root slot on A, one slot of A on B
TwoObjectGraph(A, B) ==
  /\ A # B /\ TrustedNodes = {}
  /\ RootSlots = {[own |-> 0, idx |-> 1, ok |-> TRUE, ref |-> A]}
  /\ validNode[A] /\ validNode[B]
  /\ fields[A] = <<[own |-> A, idx |-> 1, ok |-> TRUE, ref |-> B]>>
  /\ fields[B] = << >>

\* C11: a dump that dump_dot returned holds, between one header (first line)
\* and one footer (last line), exactly one node declaration per visited object
\* and exactly one edge line per slot the scanner reported for a valid visited
\* object, and nothing but such lines and roots edges; for root -> A -> B it
\* holds the six lines header, node A, node B, roots -> A, A -> B, footer,
\* each once.
C11_DumpContent ==
  DumpReturned =>
    /\ Len(out) >= 2
    /\ LinesOfKind("header") = {1} /\ LinesOfKind("footer") = {Len(out)}
    /\ \A i \in DOMAIN out : IsDotLine(i)
    /\ \A o \in Objects : NodeLinesOf(o) = IF o \in visited THEN 1 ELSE 0
    /\ \A o \in Objects : \A t \in Objects :
         EdgeLinesFrom(o, t) =
           IF o \in visited /\ validNode[o] THEN SlotsTo(o, t) ELSE 0
    /\ \A A \in Objects : \A B \in Objects :
         TwoObjectGraph(A, B) =>
           /\ Len(out) = 6
           /\ NodeLinesOf(A) = 1 /\ NodeLinesOf(B) = 1
           /\ RootEdgesTo(A) = 1 /\ EdgeLinesFrom(A, B) = 1

C11_Witness ==
  /\ DumpReturned
  /\ \E A \in Objects : \E B \in Objects :
       TwoObjectGraph(A, B) /\ visited = {A, B} /\ Len(out) = 6

(* --------------------------- the closing marker ------------------------- *)
\* the DotOutput was created: the header is in the file
SinkOpened == mode = "dump" /\ LinesOfKind("header") # {}
\* dump_dot is over: it returned Ok(()), it unwound to its caller with a
\* panic, its drop panicked after visit_roots returned, or the process aborted
DumpExited == pc \in {"returned", "panicked", "drop_panicked", "aborted"}
\* no line follows a footer
FooterLast == LinesOfKind("footer") \subseteq {Len(out)}

IsGraphLine(l) == l.k \in {"node", "edge"}
\* the node declarations and edge lines of the file, in order
GraphLines(o) == SelectSeq(o, IsGraphLine)

\* C13: a failed add_node or add_slot write is a hard failure of the dump.
\* After such a failure dump_dot is panicking or has panicked (it never
\* returns Ok(())); the failing step itself panics without adding a node or
\* edge line and without pushing the slot's target; and from then on no
\* object is visited, no queue changes and no node or edge line is written
\* (no retry, no carrying on).
C13_WriteFailureIsFatal ==
  /\ [](wfailed => mode = "dump" /\ pc \in {"unwinding", "panicked", "aborted"})
  /\ [][(wfailed' /\ ~wfailed) =>
          /\ pc' = "unwinding"
          /\ GraphLines(out') = GraphLines(out)
          /\ pc = "scan" => work_list' = work_list]_vars
  /\ [][wfailed =>
          /\ wfailed'
          /\ visited' = visited /\ work_list' = work_list /\ root_list' = root_list
          /\ GraphLines(out') = GraphLines(out)]_vars

C13_Witness ==
  /\ wfailed /\ pc = "panicked" /\ pc # "returned"
  /\ work_list # << >> /\ LinesOfKind("partial") # {}
  /\ \E o \in Objects : o \in visited /\ NodeLinesOf(o) = 0

(* ------------------------ invalid nodes in the dump --------------------- *)
DumpPanicking == mode = "dump" /\ pc \in {"unwinding", "panicked", "aborted"}
\* the scanner was stopped by .expect("invalid") on the slot at idx
AtEmptySlot ==
  /\ node \in Objects /\ validNode[node] /\ scanned[node] = 1
  /\ idx \in DOMAIN fields[node] /\ fields[node][idx].ref = Null

\* C14: the dumper never aborts on a validation failure. An object failing
\* is_valid_node is never scanned and is the source of no edge line; once
\* visited it has exactly one node declaration, carrying the error attribute
\* (none only if the write of that very declaration failed); the step that
\* visits it returns into the loop of visit_roots unless that write failed; the
\* dumper records no error; and a panic of the traversal is always a failed
\* write or an empty slot of a valid object, never an invalid node.
C14_InvalidNodeFlagged ==
  /\ [](mode = "dump" =>
          /\ errors = << >>
          /\ \A o \in Objects : ~validNode[o] =>
               /\ scanned[o] = 0 /\ EdgesFrom(o) = {}
               /\ \A i \in NodeDecls(o) : out[i].err
               /\ o \in visited =>
                    \/ NodeLinesOf(o) = 1
                    \/ NodeLinesOf(o) = 0 /\ wfailed /\ node = o
               /\ o \notin visited => NodeLinesOf(o) = 0
          /\ (DumpPanicking /\ ~wfailed) => AtEmptySlot)
  /\ [][\A o \in Objects :
          (mode = "dump" /\ ~validNode[o] /\ o \in visited' \ visited /\ ~wfailed')
            => pc' \in {"root_edge", "loop"} /\ NodeLinesOf(o)' = 1]_vars

C14_Witness ==
  /\ DumpReturned
  /\ \E o \in Objects : \E q \in Objects :
       /\ ~validNode[o] /\ fields[o] # << >> /\ o \in visited /\ NodeLinesOf(o) = 1
       /\ validNode[q] /\ scanned[q] = 1
       /\ \E i \in NodeDecls(o) : \E j \in NodeDecls(q) : i < j /\ out[i].err

(* ------------------------- slots the dumper follows --------------------- *)
\* C15: in the Graph Dumper the target of a slot (of a scanned object, or a
\* root slot) is pushed to a queue only if the slot passes is_valid_slot:
\* every slot whose target was pushed through it is a valid slot.
C15_OnlyValidSlotsPushed ==
  mode = "dump" =>
    \A s \in RootSlots \cup HeapSlotRecs :
      <<s.own, s.idx>> \in via => IsValidSlot(s)

(* ------------------------------- root edges ----------------------------- *)
\* the number of times the enumerator pushes o to the dumper's root queue
RootPushes(o) ==
  Cardinality({q \in RootItems :
                 \/ plan[q[1]][q[2]].op = "slot" /\ plan[q[1]][q[2]].slot.ref = o
                 \/ plan[q[1]][q[2]].op = "node" /\ plan[q[1]][q[2]].node = o})
\* the number of times o has been popped from the root queue
RootPops(o) == RootPushes(o) - Count(root_list, o)
\* visit_roots is running or over
Traversing ==
  mode = "dump" /\ pc \notin {"start", "err", "new_panicked", "enumerating"}
\* the root arm of visit_roots popped o and has not written its edge (yet)
RootArmOpen(o) ==
  /\ ret = "root" /\ node = o
  /\ pc \in {"scan", "root_edge", "unwinding", "panicked", "aborted"}

\* C16 as stated: each distinct object popped from the root queue has exactly
\* one roots -> X edge, however often it was enqueued, and that edge comes
\* before X's node declaration and before every X -> target edge.
C16_RootEdgeOnceBeforeVisit ==
  Traversing =>
    \A o \in Objects :
      /\ RootEdgesTo(o) <= 1
      /\ DumpReturned /\ RootPops(o) > 0 => RootEdgesTo(o) = 1
      /\ \A i \in RootEdges(o) : \A j \in NodeDecls(o) \cup EdgesFrom(o) : i < j

\* C16 as amended: one roots -> X edge is emitted per pop of X from the root
\* queue (k edges for an object popped k times), right after visit_node(X)
\* has returned: the edge of the pop in progress is the only one missing, and
\* every roots -> X edge comes after X's node declaration and after all of
\* X's own edge lines.
C16_RootEdgePerPopAfterVisit ==
  Traversing =>
    \A o \in Objects :
      /\ RootEdgesTo(o) = IF RootArmOpen(o) THEN RootPops(o) - 1 ELSE RootPops(o)
      /\ \A i \in RootEdges(o) :
           /\ \E j \in NodeDecls(o) : j < i
           /\ \A j \in EdgesFrom(o) : j < i

C16_Witness ==
  /\ DumpReturned
  /\ \E o \in Objects :
       /\ RootPops(o) = 2 /\ RootEdgesTo(o) = 2 /\ NodeLinesOf(o) = 1
       /\ EdgesFrom(o) # {}

(* -------------------------------- the cursor ---------------------------- *)
\* the dumper is alive and outside visit_node
BetweenVisits ==
  pc \in {"start", "enumerating", "loop", "root_edge", "work", "done", "returned",
          "drop_panicked"}
\* the step appends an edge line whose source is not roots
AppendsObjectEdge ==
  /\ Len(out') = Len(out) + 1
  /\ out'[Len(out')].k = "edge" /\ out'[Len(out')].a.tag # "roots"

\* C17: edges are attributed by the cursor. While an object is scanned the
\* cursor is that object's id, and outside visit_node it is "unknown"; every
\* object-internal edge line is written during a scan with the scanned
\* object (= the cursor) as its source, so no edge line has the source
\* "unknown", and an edge line o -> t exists only for a scanned valid object o
\* with a slot on t.
C17_EdgeAttribution ==
  /\ [](mode = "dump" =>
          /\ pc = "scan" =>
               /\ current_source = [tag |-> "obj", addr |-> node]
               /\ validNode[node] /\ scanned[node] = 1
          /\ BetweenVisits => current_source = [tag |-> "unknown", addr |-> 0]
          /\ \A i \in LinesOfKind("edge") :
               /\ out[i].a.tag \in {"obj", "roots"}
               /\ out[i].a.tag = "obj" =>
                    /\ scanned[out[i].a.addr] = 1
                    /\ out[i].b.addr \in Refs[out[i].a.addr])
  /\ [][AppendsObjectEdge =>
          /\ pc = "scan" /\ pc' = "scan"
          /\ out'[Len(out')].a = [tag |-> "obj", addr |-> node]
          /\ current_source = out'[Len(out')].a /\ current_source' = current_source
          /\ out'[Len(out')].b = [tag |-> "obj", addr |-> fields[node][idx].ref]]_vars

C17_Witness ==
  /\ mode = "dump" /\ pc = "scan" /\ idx = 2
  /\ current_source = [tag |-> "obj", addr |-> node]
  /\ EdgesFrom(node) # {}
  /\ \E o \in Objects \ {node} : EdgesFrom(o) # {} /\ o \notin Refs[node]

(* ------------------------------ trusted roots --------------------------- *)
\* thread t is at a trusted object of a pinning or tpinning batch
AtTrusted(t) == mode = "check" /\ tpc[t] = "run" /\ Item(t).op = "node"
BadEdgesLogged == {i \in DOMAIN errors : errors[i].kind = "BadEdge"}

\* C18: trusted roots bypass slot validation only. The step of an enumerator
\* thread on a trusted object pushes that object to the Work Queue, whatever
\* the predicate says of it, and leaves the Error Log alone (it does not even
\* take its lock); every BadEdge of the log names a slot that fails
\* is_valid_slot; and when check_roots returns every trusted object has been
\* validated once by is_valid_node: scanned if valid, reported by one BadNode
\* if not.
C18_TrustedBypass ==
  /\ [][\A t \in Threads :
          (AtTrusted(t) /\ Steps(t)) =>
            /\ work_list' = Append(work_list, Item(t).node)
            /\ errors' = errors /\ errLock' = errLock
            /\ tpc'[t] \in {"run", "done"}]_vars
  /\ [](mode = "check" =>
          \A i \in BadEdgesLogged :
            \E s \in RootSlots \cup HeapSlotRecs :
              ~s.ok /\ errors[i].own = s.own /\ errors[i].idx = s.idx)
  /\ [](CheckRootsReturned =>
          \A n \in TrustedNodes :
            /\ n \in visited /\ checked[n] = 1
            /\ scanned[n] = IF validNode[n] THEN 1 ELSE 0
            /\ Count(errors, BadNode(n)) = IF validNode[n] THEN 0 ELSE 1)

C18_Witness ==
  /\ CheckRootsReturned /\ BadEdgesLogged = {}
  /\ \E n \in TrustedNodes : \E m \in TrustedNodes :
       /\ ~validNode[n] /\ Count(errors, BadNode(n)) = 1 /\ checked[n] = 1
       /\ validNode[m] /\ scanned[m] = 1

(* -------------------------- errors and escalation ----------------------- *)
\* the slots seen failing is_valid_slot: every such root slot reported, and
\* every such slot of a scanned object
BadSlotsSeen ==
  {s \in RootSlots \cup HeapSlotRecs : ~s.ok /\ (s.own = 0 \/ scanned[s.own] = 1)}
BadNodesSeen == {o \in visited : ~validNode[o]}
ErrorsOf(kind, own, i, n) ==
  Cardinality({j \in DOMAIN errors :
                 /\ errors[j].kind = kind /\ errors[j].own = own
                 /\ errors[j].idx = i /\ errors[j].node = n})
\* check_gc's own panic (line 20), after the errors were printed
Escalated == mode = "check" /\ pc = "failed"

\* C19: errors accumulate and escalate only at the end. A step that records
\* a BadEdge or BadNode leaves the driver where it was, in the enumeration or
\* in the drain loop; check_gc inspects the log, prints and escalates only
\* with the Work Queue drained empty; and from then on the log holds exactly
\* one BadEdge per slot seen failing is_valid_slot and one BadNode per distinct
\* invalid object visited, and nothing else. (A panic before the end is the
\* .expect on an empty slot, never an escalation of recorded errors.)
C19_EscalateAtEnd ==
  /\ [][(mode = "check" /\ Len(errors') > Len(errors)) =>
          pc' = pc /\ pc \in {"enumerating", "loop", "scan"}]_vars
  /\ [](CheckRootsReturned =>
          /\ work_list = << >>
          /\ \A s \in RootSlots \cup HeapSlotRecs :
               ErrorsOf("BadEdge", s.own, s.idx, Null) =
                 IF s \in BadSlotsSeen THEN 1 ELSE 0
          /\ \A o \in Objects :
               ErrorsOf("BadNode", 0, 0, o) = IF o \in BadNodesSeen THEN 1 ELSE 0
          /\ Len(errors) = Cardinality(BadSlotsSeen) + Cardinality(BadNodesSeen))
  /\ [](Escalated => errors # << >> /\ printed = errors)
  /\ []((mode = "check" /\ pc = "panicked") =>
          \/ \E t \in Threads : tpc[t] = "panicked"
          \/ /\ idx \in DOMAIN fields[node]
             /\ fields[node][idx].ok /\ fields[node][idx].ref = Null)

C19_Witness ==
  /\ Escalated /\ work_list = << >>
  /\ BadSlotsSeen # {} /\ BadNodesSeen # {}
  /\ Len(errors) >= 2 /\ errors[1].kind = "BadEdge"
  /\ \E o \in visited : validNode[o] /\ scanned[o] = 1 /\ o \notin TrustedNodes
                         /\ \A r \in RootSlots : r.ref # o

(* --------------------------- monotone state ----------------------------- *)
\* every object pushed to the Work Queue so far: through a slot, or trusted
EverPushed ==
  {s.ref : s \in {r \in RootSlots \cup HeapSlotRecs : <<r.own, r.idx>> \in via}}
    \cup {plan[q[1]][q[2]].node : q \in {r \in ItemsDone : plan[r[1]][r[2]].op = "node"}}

\* C20: the traversal state is monotone. In every step of a Sanity Checker
\* or Graph Dumper run the visited set only grows and the Error Log is only
\* extended at its end (no record removed or rewritten); and when check_roots
\* has returned the Work Queue is empty and every object ever pushed to it is
\* in the visited set.
C20_Monotone ==
  /\ [][/\ visited \subseteq visited'
        /\ Len(errors') >= Len(errors)
        /\ SubSeq(errors', 1, Len(errors)) = errors]_vars
  /\ [](CheckRootsReturned =>
          /\ work_list = << >>
          /\ EverPushed \subseteq visited
          /\ TrustedNodes \subseteq EverPushed)

C20_Witness ==
  /\ CheckRootsReturned
  /\ Len(errors) >= 2 /\ Cardinality(visited) >= 2
  /\ Cardinality(EverPushed) >= 2 /\ EverPushed = visited
  /\ \E o \in Objects : Cardinality(PushedThrough(o)) >= 2

====
